---- MODULE Spec2Model ----
(***************************************************************************)
(* A model of the kx virtual file system (include/file.h, src/file.cc):    *)
(* FileSystem and its ordered list of FileSystemHandlers, the File handle, *)
(* and the two FileHandler implementations MemFile and RegularFile.        *)
(*                                                                         *)
(* The model is of the default build (FILESYSTEM_DISABLE_ZIP not defined). *)
(* Pointers are integer addresses; std::ifstream is modelled by the state  *)
(* the C++ standard gives it (a stream position and the eofbit/failbit     *)
(* flags of [istream.unformatted]).                                        *)
(***************************************************************************)
EXTENDS Integers, Sequences, FiniteSets, TLC

(***************************************************************************)
(* Bounds of the model.                                                    *)
(***************************************************************************)
\* the longest handler list addHandler builds
MaxHandlers == 3
\* seek offsets are drawn from -MaxOff .. MaxOff
MaxOff == 4
\* read sizes are drawn from 0 .. MaxRead
MaxRead == 3
\* the cursor is kept within -PosBound .. PosBound of the start of the data
PosBound == 5
\* read_line counts are drawn from 0 .. MaxCount
MaxCount == 3
\* with two Files open, seek offsets are drawn from -MaxTwo .. MaxTwo and
\* read sizes and line buffer sizes from 0 .. MaxTwo
MaxTwo == 1

(***************************************************************************)
(* Bytes.  '\n' and '\r' are the two bytes File::read_line treats          *)
(* specially; 97 and 98 stand for ordinary characters.                     *)
(***************************************************************************)
LF == 10
CR == 13
Byte == {LF, CR, 97, 98}

Min(a, b) == IF a <= b THEN a ELSE b

(***************************************************************************)
(* std::size_t.  The code converts a pointer difference to std::size_t     *)
(* (file.cc:239); a negative difference wraps modulo the width of size_t.  *)
(* The width is 64 bits in the build; the model checker's integers are 32  *)
(* bits wide, so the modulus is scaled to 2^16, which is still larger than *)
(* every size and address distance the model uses.                         *)
(***************************************************************************)
SizeModulus == 65536
ToSizeT(d) == d % SizeModulus

(***************************************************************************)
(* The environment: what is on disk, what the archives hold, and the       *)
(* caller memory a client's in-memory handler serves.  None of it is       *)
(* written by the program.                                                 *)
(***************************************************************************)
\* logical paths a caller asks for
Paths == {"a", "b", "c", "x"}
\* root directories of RegularFileSystem handlers
Roots == {"r1", "r2"}
\* plain files, by the path std::ifstream is given
DiskFiles ==
    [p \in {"r1/a", "r2/a", "r2/b"} |->
        CASE p = "r1/a" -> <<97, 98, LF>>
          [] p = "r2/a" -> <<98, 97>>
          [] p = "r2/b" -> <<>>]
\* zip archives, by the path zip_open is given, each a map entry -> bytes
Archives ==
    [p \in {"z", "c"} |->
        CASE p = "z" -> [e \in {"a", "b"} |-> IF e = "a" THEN <<CR, 97>> ELSE <<98>>]
          [] p = "c" -> [e \in {"c"} |-> <<97, 98>>]]
\* buffers in caller memory, served by a client handler through MemFile(void*, size)
MemStore ==
    [p \in {"a", "b"} |-> IF p = "a" THEN <<97, CR, LF>> ELSE <<>>]

\* nullptr
NullAddr == 0
\* address of a buffer in caller memory (MemFile(void*, size))
BufAddr == 100
\* address of a buffer allocated by ZipFileSystem::open (new std::uint8_t[size])
HeapAddr == 200

(***************************************************************************)
(* FileHandler implementations as records.                                 *)
(***************************************************************************)
NoFile == [kind |-> "none"]

\* MemFile::impl (void* data, std::size_t size)
MemFileBorrowed(bytes) ==
    [kind |-> "mem", owns |-> FALSE, buf |-> bytes, bufAddr |-> BufAddr,
     beg |-> BufAddr, pointer |-> BufAddr, size |-> Len(bytes)]

\* MemFile::impl (std::unique_ptr<std::uint8_t> data, std::size_t size):
\* the members are initialised in declaration order, data first, and the
\* name data in beg(data.get()) is the constructor's parameter, which
\* data(std::move(data)) has just emptied: beg and pointer are null.
MemFileOwned(bytes) ==
    [kind |-> "mem", owns |-> TRUE, buf |-> bytes, bufAddr |-> HeapAddr,
     beg |-> NullAddr, pointer |-> NullAddr, size |-> Len(bytes)]

\* RegularFile::RegularFile: seekg(0, end); size_ = tellg(); seekg(0, beg)
\* on a stream that has just been opened (no flag set).
NewRegularFile(bytes) ==
    [kind |-> "reg", content |-> bytes, pos |-> 0,
     eofbit |-> FALSE, failbit |-> FALSE, size_ |-> Len(bytes)]

(***************************************************************************)
(* FileSystemHandler implementations.                                      *)
(***************************************************************************)
DirHandler(root) == [kind |-> "dir", root |-> root]
ZipHandler(zf) == [kind |-> "zip", root |-> zf]
\* a client's FileSystemHandler that serves caller memory
MemHandler == [kind |-> "memh", root |-> ""]
Handlers == {DirHandler(r) : r \in Roots} \cup {ZipHandler("z"), MemHandler}

\* RegularFileSystem::open
RegularFileSystem_open(h, filepath) ==
    LET filepath_ == h.root \o "/" \o filepath
    IN  IF filepath_ \in DOMAIN DiskFiles
        THEN NewRegularFile(DiskFiles[filepath_])
        ELSE NoFile

\* ZipFileSystem::open: the archive opened is the one named by the argument
\* filepath (zip_open(filepath, 0, NULL)); the member zip_file is not read.
ZipFileSystem_open(h, filepath) ==
    IF filepath \in DOMAIN Archives
    THEN IF filepath \in DOMAIN Archives[filepath]
         THEN MemFileOwned(Archives[filepath][filepath])
         ELSE NoFile
    ELSE NoFile

\* a client handler: new MemFile(data, size) over caller memory, or nullptr
MemHandler_open(h, filepath) ==
    IF filepath \in DOMAIN MemStore
    THEN MemFileBorrowed(MemStore[filepath])
    ELSE NoFile

\* virtual FileSystemHandler::open
Handler_open(h, filepath) ==
    CASE h.kind = "dir" -> RegularFileSystem_open(h, filepath)
      [] h.kind = "zip" -> ZipFileSystem_open(h, filepath)
      [] OTHER -> MemHandler_open(h, filepath)

(***************************************************************************)
(* FileSystem::open: the loop over my->handlers.  The result records the   *)
(* handlers the loop called (consulted), the file returned and the index   *)
(* of the handler that produced it, or the exception thrown after the loop.*)
(***************************************************************************)
RECURSIVE OpenLoop(_, _, _, _)
OpenLoop(hs, filepath, i, consulted) ==
    IF i > Len(hs)
    THEN [file |-> NoFile, winner |-> 0, consulted |-> consulted,
          thrown |-> "Failed opening file " \o filepath]
    ELSE LET fh == Handler_open(hs[i], filepath)
         IN  IF fh # NoFile
             THEN [file |-> fh, winner |-> i,
                   consulted |-> Append(consulted, i), thrown |-> ""]
             ELSE OpenLoop(hs, filepath, i + 1, Append(consulted, i))


\* FileSystem::open with the return inside the loop lost: the last handler
\* that has the file wins
RECURSIVE OpenLoopLast(_, _, _, _, _)
OpenLoopLast(hs, filepath, i, consulted, found) ==
    IF i > Len(hs)
    THEN [found EXCEPT !.consulted = consulted,
                       !.thrown = IF found.winner = 0
                                  THEN "Failed opening file " \o filepath ELSE ""]
    ELSE LET fh == Handler_open(hs[i], filepath)
         IN  OpenLoopLast(hs, filepath, i + 1, Append(consulted, i),
                          IF fh # NoFile
                          THEN [found EXCEPT !.file = fh, !.winner = i]
                          ELSE found)
FileSystem_open_last(hs, filepath) ==
    OpenLoopLast(hs, filepath, 1, <<>>,
                 [file |-> NoFile, winner |-> 0, consulted |-> <<>>, thrown |-> ""])

\* FileSystem::open that opens with every handler and then returns the
\* first file it got
FileSystem_open_all(hs, filepath) ==
    LET first == OpenLoop(hs, filepath, 1, <<>>)
    IN  [first EXCEPT !.consulted = [i \in 1 .. Len(hs) |-> i]]

\* FileSystem::open whose loop stops one handler short
FileSystem_open_short(hs, filepath) ==
    IF hs = <<>> THEN OpenLoop(hs, filepath, 1, <<>>)
    ELSE OpenLoop(SubSeq(hs, 1, Len(hs) - 1), filepath, 1, <<>>)

FileSystem_open(hs, filepath) == OpenLoop(hs, filepath, 1, <<>>)

(***************************************************************************)
(* FileHandler operations.  A read has a set of outcomes: undefined        *)
(* behaviour (a copy from outside the buffer, a division by zero) is every *)
(* outcome the build can produce: the bytes found there, whatever they     *)
(* are, or a trap.                                                         *)
(***************************************************************************)
Outcome(f, bytes, r, isOob, trap) ==
    [file |-> f, out |-> bytes, ret |-> r, oob |-> isOob, crashed |-> trap]

\* the address a lies within the buffer the MemFile reads from
InBuf(f, a) == f.bufAddr <= a /\ a < f.bufAddr + Len(f.buf)

\* return read/my->size: a division by zero traps (x86) or yields 0 (ARM)
MemFile_read_result(f, read) ==
    IF f.size = 0 THEN {[ret |-> 0, crashed |-> TRUE], [ret |-> 0, crashed |-> FALSE]}
    ELSE {[ret |-> read \div f.size, crashed |-> FALSE]}

\* std::size_t remaining = my->beg + my->size - my->pointer
MemFile_remaining(f) == ToSizeT(f.beg + f.size - f.pointer)


\* MemFile::read without the std::min: it copies size bytes whatever remains
MemFile_read_nomin(f, size) ==
    LET idx == 1 .. size
        outside == {i \in idx : ~InBuf(f, f.pointer + i - 1)}
        moved == [f EXCEPT !.pointer = @ + size]
        copied(g) == [i \in idx |->
                        IF i \in outside THEN g[i]
                        ELSE f.buf[f.pointer + i - 1 - f.bufAddr + 1]]
    IN  { Outcome(moved, copied(g), d.ret, outside # {}, d.crashed) :
            g \in [outside -> Byte], d \in MemFile_read_result(f, size) }

\* MemFile::read
MemFile_read(f, size) ==
    LET remaining == MemFile_remaining(f)
        read == Min(remaining, size)
        idx == 1 .. read
        outside == {i \in idx : ~InBuf(f, f.pointer + i - 1)}
        moved == [f EXCEPT !.pointer = @ + read]
        copied(g) == [i \in idx |->
                        IF i \in outside THEN g[i]
                        ELSE f.buf[f.pointer + i - 1 - f.bufAddr + 1]]
    IN  \* memcpy(buffer, my->pointer, read) traps outside the buffer ...
        (IF outside # {} THEN {Outcome(f, <<>>, 0, TRUE, TRUE)} ELSE {})
        \cup
        \* ... or copies what it finds there
        { Outcome(moved, copied(g), d.ret, outside # {}, d.crashed) :
            g \in [outside -> Byte], d \in MemFile_read_result(f, read) }


\* MemFile::seek without the std::min on the end-relative branch
MemFile_seek_noclamp(f, offset, origin) ==
    IF origin = "beg" THEN [f EXCEPT !.pointer = f.beg + offset]
    ELSE IF origin = "cur" THEN [f EXCEPT !.pointer = @ + offset]
    ELSE [f EXCEPT !.pointer = f.beg + f.size + offset]

\* MemFile::seek
MemFile_seek(f, offset, origin) ==
    IF origin = "beg" THEN [f EXCEPT !.pointer = f.beg + offset]
    ELSE IF origin = "cur" THEN [f EXCEPT !.pointer = @ + offset]
    ELSE [f EXCEPT !.pointer = Min(f.beg + f.size + offset, f.beg + f.size)]

\* MemFile::tell
MemFile_tell(f) == f.pointer - f.beg

\* MemFile::size
MemFile_size(f) == f.size

\* RegularFile::read: file->read(buffer, size); return file->gcount().
\* istream::read extracts nothing and sets failbit when the stream is not
\* good(); otherwise it extracts min(size, bytes left) characters and sets
\* eofbit | failbit when that is fewer than size.
RegularFile_read(f, size) ==
    IF f.eofbit \/ f.failbit
    THEN {Outcome([f EXCEPT !.failbit = TRUE], <<>>, 0, FALSE, FALSE)}
    ELSE LET left == IF f.pos < Len(f.content) THEN Len(f.content) - f.pos ELSE 0
             gcount == Min(left, size)
             short == gcount < size
         IN  {Outcome([f EXCEPT !.pos = @ + gcount,
                                !.eofbit = short, !.failbit = short],
                      SubSeq(f.content, f.pos + 1, f.pos + gcount),
                      gcount, FALSE, FALSE)}

\* RegularFile::seek: file->seekg(offset, origin).  seekg clears eofbit,
\* does nothing more when fail(), and sets failbit when the stream buffer
\* cannot seek there (a position before the start of the file).
RegularFile_seek(f, offset, origin) ==
    LET g == [f EXCEPT !.eofbit = FALSE]
        base == IF origin = "beg" THEN 0
                ELSE IF origin = "cur" THEN g.pos ELSE Len(g.content)
    IN  IF g.failbit THEN g
        ELSE IF base + offset < 0 THEN [g EXCEPT !.failbit = TRUE]
        ELSE [g EXCEPT !.pos = base + offset]

\* RegularFile::tell: file->tellg(), which is pos_type(-1) when fail()
RegularFile_tell(f) == IF f.failbit THEN -1 ELSE f.pos

\* RegularFile::size
RegularFile_size(f) == f.size_

\* virtual FileHandler::read / seek / tell / size
Handler_read(f, size) ==
    IF f.kind = "mem" THEN MemFile_read(f, size) ELSE RegularFile_read(f, size)
Handler_seek(f, offset, origin) ==
    IF f.kind = "mem" THEN MemFile_seek(f, offset, origin)
    ELSE RegularFile_seek(f, offset, origin)
Handler_tell(f) ==
    IF f.kind = "mem" THEN MemFile_tell(f) ELSE RegularFile_tell(f)
Handler_size(f) ==
    IF f.kind = "mem" THEN MemFile_size(f) ELSE RegularFile_size(f)

\* File::tell, File::size: pass through
File_tell(f) == Handler_tell(f)
File_size(f) == Handler_size(f)

\* File::eof with the comparison widened to "at or past the end"
File_eof_atleast(f) == ToSizeT(Handler_tell(f)) >= Handler_size(f)

\* File::eof: (std::size_t) handler->tell() == handler->size()
File_eof(f) == ToSizeT(Handler_tell(f)) = Handler_size(f)

(***************************************************************************)
(* File::read_line.  The loop state is the handler, the count left, the    *)
(* last character c, the characters stored through buffer so far, and      *)
(* whether a read touched memory outside the backing buffer.  A read that  *)
(* copies nothing leaves c as it was.                                      *)
(***************************************************************************)
LineResult(f, c, written, bad, trap) ==
    [file |-> f, c |-> c, written |-> written, oob |-> bad, crashed |-> trap]

RECURSIVE File_read_line_loop(_, _, _, _, _)
File_read_line_loop(f, count, c, written, bad) ==
    IF ~(count > 0 /\ c # LF)
    THEN {LineResult(f, c, written, bad, FALSE)}
    ELSE UNION {
           IF o.crashed
           THEN {LineResult(o.file, c, written, bad \/ o.oob, TRUE)}
           ELSE LET c2 == IF Len(o.out) >= 1 THEN o.out[1] ELSE c
                    w2 == IF c2 # CR /\ c2 # LF THEN Append(written, c2)
                          ELSE written
                IN  File_read_line_loop(o.file, count - 1, c2, w2, bad \/ o.oob)
           : o \in Handler_read(f, 1) }

\* if (c != '\n') ++buffer; *buffer = 0: the index the terminator is
\* written at, counted from the buffer the caller passed
File_read_line_term(r) == Len(r.written) + (IF r.c # LF THEN 1 ELSE 0)

\* char c = 0; int chars_read = 0; for (...) ...
File_read_line(f, count) == File_read_line_loop(f, count, 0, <<>>, FALSE)

\* File::read_all: std::string contents(size(), 0); read(&contents[0],
\* contents.size()); return contents.  The bytes the read does not
\* overwrite stay 0; the value read returns is dropped.
File_read_all(f) ==
    LET n == Handler_size(f)
    IN  { [o EXCEPT !.out = [i \in 1 .. n |->
                               IF i <= Len(o.out) THEN o.out[i] ELSE 0]]
          : o \in Handler_read(f, n) }

\* the bytes of the resource a handler reads
Data(f) == IF f.kind = "mem" THEN f.buf ELSE f.content

\* the cursor of f as the handler holds it, whatever tell() reports
Cursor(f) == IF f.kind = "mem" THEN f.pointer - f.beg ELSE f.pos
InBounds(f) == -PosBound <= Cursor(f) /\ Cursor(f) <= PosBound

VARIABLES
    handlers,   \* FileSystem::impl::handlers
    file,       \* the FileHandler owned by the caller's File, or NoFile
    opened,     \* what the last FileSystem::open call did
    last,       \* the last operation called and its arguments
    ret,        \* the value the last operation returned
    out,        \* the bytes the last read copied into the caller's buffer
    oob,        \* the last operation read memory outside the backing buffer
    term,       \* the buffer index the last read_line wrote the terminator at, or -1
    other,      \* the FileHandler owned by a second File of the caller, or NoFile
    shared,     \* the two Files' handlers are one and the same object
    pc          \* "run", or "crashed" once undefined behaviour has trapped

vars == <<handlers, file, opened, last, ret, out, oob, term, other, shared, pc>>

NoOpen == [path |-> "", file |-> NoFile, winner |-> 0, consulted |-> <<>>, thrown |-> ""]
Op(op, a, origin) == [op |-> op, a |-> a, origin |-> origin]

\* FileSystem::FileSystem (): an empty handler list, no File yet
Init ==
    /\ handlers = <<>>
    /\ file = NoFile
    /\ opened = NoOpen
    /\ last = Op("new", 0, "none")
    /\ ret = 0
    /\ out = <<>>
    /\ oob = FALSE
    /\ term = -1
    /\ other = NoFile
    /\ shared = FALSE
    /\ pc = "run"

\* FileSystem::addHandler
addHandler(h) ==
    /\ pc = "run"
    /\ Len(handlers) < MaxHandlers
    /\ handlers' = Append(handlers, h)
    /\ last' = Op("addHandler", 0, "none")
    /\ UNCHANGED <<file, opened, ret, out, oob, term, other, shared, pc>>

\* whether the handler open has made is an object another File already
\* owns: never, each handler is made by new (return new RegularFile(...),
\* return new MemFile(...)) for the File that open returns
OpenShares_cached(fh, existing) ==
    /\ existing # NoFile
    /\ existing.kind = fh.kind
    /\ Data(existing) = Data(fh)

OpenShares(fh, existing) == FALSE

\* File f = fs.open(filepath): on success the caller's File takes the new
\* FileHandler; on the exception the caller's File is left as it was.
open(filepath) ==
    /\ pc = "run"
    /\ LET r == FileSystem_open(handlers, filepath)
       IN  /\ opened' = [path |-> filepath, file |-> r.file, winner |-> r.winner,
                         consulted |-> r.consulted, thrown |-> r.thrown]
           /\ file' = IF r.winner = 0 THEN file
                      ELSE IF OpenShares(r.file, other) THEN other ELSE r.file
           /\ shared' = IF r.winner = 0 THEN shared
                        ELSE OpenShares(r.file, other)
    /\ other' = other
    /\ last' = Op("open", 0, "none")
    /\ ret' = 0
    /\ out' = <<>>
    /\ oob' = FALSE
    /\ term' = -1
    /\ UNCHANGED <<handlers, pc>>

\* what an operation on the first File does to the second: nothing, unless
\* the two hold the same handler object
Others ==
    /\ other' = IF shared THEN file' ELSE other
    /\ shared' = shared

\* the effect of an outcome of a read on the state
Apply(o) ==
    /\ InBounds(o.file)
    /\ file' = o.file
    /\ out' = o.out
    /\ oob' = o.oob
    /\ term' = -1
    /\ Others
    /\ pc' = IF o.crashed THEN "crashed" ELSE "run"

\* File::read
read(size) ==
    /\ pc = "run"
    /\ file # NoFile
    /\ \E o \in Handler_read(file, size) :
        /\ Apply(o)
        /\ ret' = o.ret
    /\ last' = Op("read", size, "none")
    /\ UNCHANGED <<handlers, opened>>

\* File::seek
seek(offset, origin) ==
    /\ pc = "run"
    /\ file # NoFile
    /\ file' = Handler_seek(file, offset, origin)
    /\ InBounds(file')
    /\ last' = Op("seek", offset, origin)
    /\ ret' = 0
    /\ out' = <<>>
    /\ oob' = FALSE
    /\ term' = -1
    /\ Others
    /\ UNCHANGED <<handlers, opened, pc>>

\* File::get: std::uint8_t c; handler->read(&c, 1); return c.  When the
\* read copies nothing, c is returned uninitialised: any byte.
get ==
    /\ pc = "run"
    /\ file # NoFile
    /\ \E o \in Handler_read(file, 1) :
        /\ Apply(o)
        /\ ret' \in (IF Len(o.out) >= 1 THEN {o.out[1]} ELSE Byte)
    /\ last' = Op("get", 0, "none")
    /\ UNCHANGED <<handlers, opened>>

\* File::peek: c = get(); handler->seek(-1, std::ios::cur); return c.
\* last.a records tell() as it was when peek was called.
peek ==
    /\ pc = "run"
    /\ file # NoFile
    /\ \E o \in Handler_read(file, 1) :
        /\ Apply([o EXCEPT !.file = IF o.crashed THEN o.file
                                    ELSE Handler_seek(o.file, -1, "cur")])
        /\ ret' \in (IF Len(o.out) >= 1 THEN {o.out[1]} ELSE Byte)
    /\ last' = Op("peek", Handler_tell(file), "none")
    /\ UNCHANGED <<handlers, opened>>

\* File::read_all
read_all ==
    /\ pc = "run"
    /\ file # NoFile
    /\ \E o \in File_read_all(file) :
        /\ Apply(o)
        /\ ret' = 0
    /\ last' = Op("read_all", 0, "none")
    /\ UNCHANGED <<handlers, opened>>

\* File::read_line
read_line(count) ==
    /\ pc = "run"
    /\ file # NoFile
    /\ \E r \in File_read_line(file, count) :
        /\ InBounds(r.file)
        /\ file' = r.file
        /\ out' = r.written
        /\ ret' = Len(r.written)
        /\ oob' = r.oob
        /\ term' = IF r.crashed THEN -1 ELSE File_read_line_term(r)
        /\ Others
        /\ pc' = IF r.crashed THEN "crashed" ELSE "run"
    /\ last' = Op("read_line", count, "none")
    /\ UNCHANGED <<handlers, opened>>

\* File g = fs.open(filepath): the caller's second File; the first File
\* and the second exchange roles, so the call is open for the second
open_other(filepath) ==
    /\ pc = "run"
    /\ LET r == FileSystem_open(handlers, filepath)
       IN  /\ r.winner # 0
           /\ other' = IF OpenShares(r.file, file) THEN file ELSE r.file
           /\ shared' = OpenShares(r.file, file)
    /\ last' = Op("open_other", 0, "none")
    /\ ret' = 0
    /\ out' = <<>>
    /\ oob' = FALSE
    /\ term' = -1
    /\ UNCHANGED <<handlers, file, opened, pc>>

\* std::swap(f, g), through File::File (File&&) and File::operator= (File&&):
\* each handler goes to the other File
swap ==
    /\ pc = "run"
    /\ file # NoFile
    /\ other # NoFile
    /\ file' = other
    /\ other' = file
    /\ last' = Op("swap", 0, "none")
    /\ ret' = 0
    /\ out' = <<>>
    /\ oob' = FALSE
    /\ term' = -1
    /\ UNCHANGED <<handlers, opened, shared, pc>>

Origins == {"beg", "cur", "end"}

Next ==
    \/ \E h \in Handlers : addHandler(h)
    \/ \E p \in Paths : open(p)
    \/ \E n \in 0 .. MaxRead : read(n)
    \/ \E off \in -MaxOff .. MaxOff, origin \in Origins : seek(off, origin)
    \/ get
    \/ peek
    \/ read_all
    \/ \E n \in 0 .. MaxCount : read_line(n)
    \/ \E p \in Paths : open_other(p)
    \/ swap

Spec == Init /\ [][Next]_vars

(***************************************************************************)
(* Two parts of Spec, each small enough to check exhaustively.  The        *)
(* operations of a File do not touch the handler list and open reads       *)
(* nothing of the File, so the two parts do not constrain each other.      *)
(***************************************************************************)
\* resolution: FileSystem fs; then any addHandler and open calls
NextFS ==
    \/ \E h \in Handlers : addHandler(h)
    \/ \E p \in Paths : open(p)

SpecFS == Init /\ [][NextFS]_vars

\* FileSystem fs; fs.addHandler(h): one handler registered, no File yet
InitFile ==
    /\ handlers \in {<<h>> : h \in Handlers}
    /\ file = NoFile
    /\ opened = NoOpen
    /\ last = Op("addHandler", 0, "none")
    /\ ret = 0
    /\ out = <<>>
    /\ oob = FALSE
    /\ term = -1
    /\ other = NoFile
    /\ shared = FALSE
    /\ pc = "run"

\* byte sources: open calls and the operations of the File they return
NextFile ==
    \/ \E p \in Paths : open(p)
    \/ \E n \in 0 .. MaxRead : read(n)
    \/ \E off \in -MaxOff .. MaxOff, origin \in Origins : seek(off, origin)
    \/ get
    \/ peek
    \/ read_all
    \/ \E n \in 0 .. MaxCount : read_line(n)

SpecFile == InitFile /\ [][NextFile]_vars

\* with two Files open the cursor is kept within MaxTwo of the data
NearData(f) ==
    f = NoFile \/ (-MaxTwo <= Cursor(f) /\ Cursor(f) <= Len(Data(f)) + MaxTwo)

\* two Files: the operations of the first, with the second opened beside it
\* and the two exchanged; offsets and sizes are at most MaxTwo
NextTwo ==
    \/ \E p \in Paths : open(p)
    \/ \E p \in Paths : open_other(p)
    \/ swap
    \/ \E n \in 0 .. MaxTwo : read(n) /\ NearData(file')
    \/ \E off \in -MaxTwo .. MaxTwo, origin \in Origins :
            seek(off, origin) /\ NearData(file')
    \/ get /\ NearData(file')
    \/ peek /\ NearData(file')
    \/ \E n \in 0 .. MaxTwo : read_line(n) /\ NearData(file')

SpecTwo == InitFile /\ [][NextTwo]_vars

(***************************************************************************)
(* Resolution protocol.                                                    *)
(***************************************************************************)
\* handler number i of the list can satisfy the path
CanSatisfy(i, filepath) == Handler_open(handlers[i], filepath) # NoFile
Satisfiers(filepath) == {i \in 1 .. Len(handlers) : CanSatisfy(i, filepath)}
\* the state right after a FileSystem::open call
JustOpened == last.op = "open"

\* C1: when some registered handler can satisfy the path, open returns the
\* file of the first-registered handler that can, whatever later handlers
\* could return.
C1_FirstRegisteredWins ==
    (JustOpened /\ Satisfiers(opened.path) # {}) =>
        /\ opened.winner \in Satisfiers(opened.path)
        /\ \A j \in Satisfiers(opened.path) : opened.winner <= j
        /\ opened.file = Handler_open(handlers[opened.winner], opened.path)
        /\ file = opened.file

\* C1 witness: two handlers hold different files for the path and the
\* first one's file is returned
C1_Witness ==
    /\ JustOpened
    /\ Satisfiers(opened.path) = {1, 2}
    /\ Handler_open(handlers[1], opened.path) # Handler_open(handlers[2], opened.path)
    /\ file = Handler_open(handlers[1], opened.path)

\* C2: one open call consults the handlers in registration order, each at
\* most once, and none after the one whose file it returns: the handlers
\* consulted are the prefix of the list ending at the winner, or the whole
\* list when none has the file.
C2_ConsultedIsPrefix ==
    JustOpened =>
        LET k == IF opened.winner # 0 THEN opened.winner ELSE Len(handlers)
        IN  opened.consulted = [i \in 1 .. k |-> i]

\* C2 witness: the first of two handlers wins and the second, which also
\* has the file, is not consulted
C2_Witness ==
    /\ JustOpened
    /\ Satisfiers(opened.path) = {1, 2}
    /\ opened.consulted = <<1>>

\* C3: open throws "Failed opening file <path>" when every registered
\* handler reports absence (also with no handler at all), and does not
\* throw while some handler can satisfy the path.
C3_NotFoundIffAllAbsent ==
    JustOpened =>
        /\ Satisfiers(opened.path) = {} =>
              /\ opened.thrown = "Failed opening file " \o opened.path
              /\ opened.winner = 0
        /\ Satisfiers(opened.path) # {} => opened.thrown = ""

\* C3 witness: two handlers, neither has the path, and open has thrown
C3_Witness ==
    /\ JustOpened
    /\ Len(handlers) = 2
    /\ Satisfiers(opened.path) = {}
    /\ opened.thrown = "Failed opening file " \o opened.path

(***************************************************************************)
(* Byte sources.  A property of one call is an action property: it relates *)
(* the state before the call to the state after it, and last' names the    *)
(* call the step made.                                                     *)
(***************************************************************************)
IsMem(f) == f.kind = "mem"
IsReg(f) == f.kind = "reg"
InRange(f) == 0 <= File_tell(f) /\ File_tell(f) <= File_size(f)

\* C4: a MemFile of length L at position p, 0 <= p <= L, returns
\* min(L - p, n) from read(buffer, n), a count of bytes, and advances the
\* position by the amount it returned.
C4_ReadReturnsByteCount ==
    [][(last'.op = "read" /\ IsMem(file) /\ InRange(file) /\ pc' = "run") =>
          /\ ret' = Min(File_size(file) - File_tell(file), last'.a)
          /\ File_tell(file') = File_tell(file) + ret']_vars

SeekTarget(f, offset, origin) ==
    (IF origin = "beg" THEN 0
     ELSE IF origin = "cur" THEN Cursor(f) ELSE File_size(f)) + offset

C6_OutOfRangeReadIsEmpty ==
    [][(/\ last.op = "seek"
        /\ last.origin \in {"beg", "cur"}
        /\ Cursor(file) \notin 0 .. File_size(file) - 1
        /\ last'.op = "read") =>
          /\ out' = <<>>
          /\ ret' = 0
          /\ ~oob'
          /\ pc' = "run"]_vars

\* C7: an end-relative seek on a MemFile whose offset overshoots the start
\* of the buffer leaves the position at 0, and tell() is never negative
\* after an end-relative seek.
C7_EndSeekClampsAtZero ==
    (last.op = "seek" /\ last.origin = "end" /\ IsMem(file)) =>
        /\ File_tell(file) >= 0
        /\ last.a < -File_size(file) => File_tell(file) = 0

\* C8: after seek(offset, end) on a MemFile of length L the position is at
\* most L: L + offset when offset <= 0 (and L + offset >= 0), L when
\* offset > 0.
C8_EndSeekAtMostSize ==
    (last.op = "seek" /\ last.origin = "end" /\ IsMem(file)) =>
        /\ File_tell(file) <= File_size(file)
        /\ (last.a <= 0 /\ File_size(file) + last.a >= 0) =>
              File_tell(file) = File_size(file) + last.a
        /\ last.a > 0 => File_tell(file) = File_size(file)

\* C8 witness: an end-relative seek with a positive offset on a non-empty
\* MemFile, left at size()
C8_Witness ==
    /\ last.op = "seek"
    /\ last.origin = "end"
    /\ last.a > 0
    /\ IsMem(file)
    /\ File_size(file) > 0
    /\ File_tell(file) = File_size(file)

\* C9: read(buffer, 0) returns 0, leaves the position unchanged and does
\* not fail, on every source of every length at every position.
C9_ReadZeroIsNoOp ==
    [][(last'.op = "read" /\ last'.a = 0) =>
          /\ ret' = 0
          /\ File_tell(file') = File_tell(file)
          /\ pc' = "run"]_vars

\* C10: after seek(0, end) tell() is size(); after seek(0, start) tell()
\* is 0, whatever reads, seeks, gets and peeks came before.
C10_SeekEndsThenTell ==
    (last.op = "seek" /\ last.a = 0) =>
        /\ last.origin = "end" => File_tell(file) = File_size(file)
        /\ last.origin = "beg" => File_tell(file) = 0

C12_PeekKeepsPosition ==
    [][(last'.op = "peek" /\ pc' = "run") =>
          File_tell(file') = File_tell(file)]_vars

\* C13: at a position p, 0 <= p < size(), peek() and then get() both return
\* the byte at offset p, and the position after the two is p + 1.
C13_PeekThenGet ==
    [][(/\ last.op = "peek"
        /\ pc = "run"
        /\ 0 <= last.a
        /\ last.a < File_size(file)
        /\ last'.op = "get") =>
          /\ pc' = "run"
          /\ ret = Data(file)[last.a + 1]
          /\ ret' = ret
          /\ File_tell(file') = last.a + 1]_vars

\* C13 without the Files ZipFileSystem::open returns
C13_PeekThenGet_NotOwned ==
    [][(/\ last.op = "peek"
        /\ pc = "run"
        /\ ~(IsMem(file) /\ file.owns)
        /\ 0 <= last.a
        /\ last.a < File_size(file)
        /\ last'.op = "get") =>
          /\ pc' = "run"
          /\ ret = Data(file)[last.a + 1]
          /\ ret' = ret
          /\ File_tell(file') = last.a + 1]_vars

\* the bytes of data from offset p on
Rest(data, p) == SubSeq(data, p + 1, Len(data))
\* the index in bytes of its first line feed, or Len(bytes) + 1 without one
FirstLF(bytes) ==
    IF \E i \in 1 .. Len(bytes) : bytes[i] = LF
    THEN CHOOSE i \in 1 .. Len(bytes) :
            bytes[i] = LF /\ \A j \in 1 .. i - 1 : bytes[j] # LF
    ELSE Len(bytes) + 1
NotCR(b) == b # CR
\* the line that starts at offset p, without its CR and LF
LineAt(data, p) ==
    SelectSeq(SubSeq(Rest(data, p), 1, FirstLF(Rest(data, p)) - 1), NotCR)
\* count is large enough for the line at p: it covers every byte through
\* the line feed, or more than the bytes left when there is no line feed
LargeEnough(data, p, count) ==
    IF FirstLF(Rest(data, p)) <= Len(Rest(data, p))
    THEN count >= FirstLF(Rest(data, p))
    ELSE count > Len(Rest(data, p))

\* C14: with a buffer large enough, a read_line call at the start of a line
\* returns that line without CR and LF and reports its length, also for the
\* last line of an input that does not end with a line terminator.
C14_ReadLineYieldsLine ==
    [][(/\ last'.op = "read_line"
        /\ file # NoFile
        /\ 0 <= File_tell(file)
        /\ File_tell(file) < File_size(file)
        /\ LargeEnough(Data(file), File_tell(file), last'.a)) =>
          /\ pc' = "run"
          /\ out' = LineAt(Data(file), File_tell(file))
          /\ ret' = Len(out')]_vars

\* C15: read_line(buffer, max_count) with max_count >= 1 stores at most
\* max_count - 1 characters, and every index it writes, the terminator's
\* included, is within 0 .. max_count - 1.
C15_ReadLineStaysInBuffer ==
    [][(last'.op = "read_line" /\ last'.a >= 1 /\ pc' = "run") =>
          /\ Len(out') <= last'.a - 1
          /\ term' \in 0 .. last'.a - 1]_vars

\* C16: when read_line returns n, n characters were stored and the
\* terminator is at buffer index n, on both exits of the loop.
C16_TerminatorAfterLastChar ==
    [][(last'.op = "read_line" /\ last'.a >= 1 /\ pc' = "run") =>
          /\ ret' = Len(out')
          /\ term' = ret']_vars

\* C17: read_all() on a freshly opened File returns the size() bytes of
\* the resource in order and leaves the position at size().
C17_ReadAllRoundTrip ==
    [][(/\ last.op = "open"
        /\ opened.winner # 0
        /\ last'.op = "read_all") =>
          /\ pc' = "run"
          /\ out' = Data(file)
          /\ File_tell(file') = File_size(file)]_vars

\* the operations of File that move or read through its handler
CursorOps == {"read", "seek", "get", "peek", "read_line", "read_all"}

C19_OwnedStartsAtBuffer ==
    [][(/\ last.op = "open"
        /\ opened.winner # 0
        /\ IsMem(file)
        /\ file.owns
        /\ last'.op = "read"
        /\ last'.a >= 1
        /\ last'.a <= File_size(file)) =>
          /\ file.beg = file.bufAddr
          /\ file.pointer = file.bufAddr
          /\ File_tell(file) = 0
          /\ pc' = "run"
          /\ out' = SubSeq(file.buf, 1, last'.a)]_vars

\* archive A can be opened and has an entry E
Contains(A, E) == A \in DOMAIN Archives /\ E \in DOMAIN Archives[A]

\* C20: a ZipFileSystem made for archive A and asked for entry E returns
\* the bytes of E exactly when A can be opened and contains E, and reports
\* absence otherwise.
C20_ZipOpensItsArchive ==
    JustOpened =>
        \A k \in 1 .. Len(opened.consulted) :
            LET i == opened.consulted[k]
                A == handlers[i].root
                E == opened.path
            IN  handlers[i].kind = "zip" =>
                    /\ (opened.winner = i) <=> Contains(A, E)
                    /\ (opened.winner = i) => opened.file.buf = Archives[A][E]

====
